---------------------------- MODULE Spec2Model ----------------------------
(***************************************************************************)
(* Model of src/index.js: detectVaraibles(text), which scans a string for  *)
(* {{ name }} placeholders with the global regular expression              *)
(* /{{ \w+ }}/g, and the "input" listener of the text field that calls it. *)
(*                                                                         *)
(* A JavaScript string is a sequence of one-character strings.  An input   *)
(* text is held as the sequence of fragments it is made of; Chars(text) is *)
(* the string itself, and the code only ever sees Chars(text).             *)
(* JavaScript positions are 0-based: position p of s is s[p + 1].          *)
(***************************************************************************)
EXTENDS Integers, Sequences, FiniteSets

(***************************** bounds **************************************)
\* longest input drawn character by character
MaxLen == 7
\* most fragments in an input assembled from the fragments of Pieces
MaxPieces == 3
\* most input events of the text field in one behaviour of SpecHost
MaxEvents == 3
\* number of independent callers in SpecConcurrent
NumCallers == 2

(***************************** JavaScript values **************************)
Null == [type |-> "null", val |-> << >>]
Str(cs) == [type |-> "string", val |-> cs]
Arr(xs) == [type |-> "array", val |-> xs]

\* Array.isArray(v)
IsArrayAlways(v) == TRUE
IsArray(v) == v.type = "array"

\* typeof v === "string"
IsString(v) == v.type = "string"

\* the truthiness test of filter((match) => match): null and "" are falsy
Truthy(v) ==
    \/ v.type = "array"
    \/ v.type = "string" /\ v.val # << >>

(***************************** the pattern *********************************)
\* \w is [A-Za-z0-9_]; the model's alphabet samples it with a, b, 1 and _
WordChars == {"a", "b", "1", "_"}
IsWordOrSpace(ch) == ch \in WordChars \cup {" "}
IsWordChar(ch) == ch \in WordChars

\* the literal parts of /{{ \w+ }}/
Open == << "{", "{", " " >>
Close == << " ", "}", "}" >>

\* the numbers of characters the quantifier + of \w+ may consume when n word
\* characters follow
WordQuantifierStar(n) == 0 .. n
WordQuantifier(n) == 1 .. n

Max(S) == CHOOSE x \in S : \A y \in S : y <= x

\* the literal lit stands in s at 0-based position p
LitAt(s, p, lit) ==
    /\ p + Len(lit) <= Len(s)
    /\ \A k \in 1 .. Len(lit) : s[p + k] = lit[k]

\* the number of consecutive word characters of s from 0-based position p
RECURSIVE WordRun(_, _)
WordRun(s, p) ==
    IF p < Len(s) /\ IsWordChar(s[p + 1]) THEN 1 + WordRun(s, p + 1) ELSE 0

\* the matcher of a pattern that refuses a brace before the placeholder
MatchEndAtUnbraced(s, p) ==
    IF LitAt(s, p, Open) /\ ~(p > 0 /\ s[p] = "{")
    THEN LET n == WordRun(s, p + 3)
             ks == {k \in WordQuantifier(n) : LitAt(s, p + 3 + k, Close)}
         IN IF ks # {} THEN p + 3 + Max(ks) + 3 ELSE -1
    ELSE -1

\* The matcher of /{{ \w+ }}/ tried at position p: the end (exclusive) of the
\* match, or -1.  \w+ is greedy and backtracks through shorter runs.
MatchEndAt(s, p) ==
    IF LitAt(s, p, Open)
    THEN LET n == WordRun(s, p + 3)
             ks == {k \in WordQuantifier(n) : LitAt(s, p + 3 + k, Close)}
         IN IF ks # {} THEN p + 3 + Max(ks) + 3 ELSE -1
    ELSE -1

\* exec of a sticky regex: the matcher is tried at lastIndex only
ExecIndexSticky(s, li) ==
    IF li <= Len(s) /\ MatchEndAt(s, li) # -1 THEN li ELSE -1

\* RegExpBuiltinExec of a global regex: the matcher is tried at lastIndex and
\* then at each later position up to the end of s; the first position at
\* which it succeeds, or -1
RECURSIVE ExecIndex(_, _)
ExecIndex(s, li) ==
    IF li > Len(s) THEN -1
    ELSE IF MatchEndAt(s, li) # -1 THEN li
    ELSE ExecIndex(s, li + 1)

\* the characters of s from position p up to position e, exclusive: the
\* text of a match
Substring(s, p, e) == SubSeq(s, p + 1, e)

\* s.slice(a, b) for 0 <= a and 0 <= b <= s.length
SliceFromTwo(s, a, b) == SubSeq(s, a, b)
Slice(s, a, b) == SubSeq(s, a + 1, b)

\* the callback of map, lines 9-12
MapCallback(match) ==
    IF IsString(match)
    THEN Str(Slice(match.val, 3, Len(match.val) - 3))
    ELSE Null

\* matches.map(...).filter((match) => match), lines 8-13
MapFilter(xs) ==
    LET mapped == [i \in 1 .. Len(xs) |-> MapCallback(xs[i])]
    IN SelectSeq(mapped, Truthy)

\* value.match(regex) run from lastIndex li with the matches acc found so
\* far: the array of all matches, or null when there is none
RECURSIVE MatchFrom(_, _, _)
MatchFrom(s, li, acc) ==
    LET p == ExecIndex(s, li)
    IN IF p # -1
       THEN MatchFrom(s, MatchEndAt(s, p),
                      Append(acc, Str(Substring(s, p, MatchEndAt(s, p)))))
       ELSE IF acc = << >> THEN Null ELSE Arr(acc)

\* detectVaraibles(text) run alone, lines 3-16
detectVaraibles(s) ==
    LET m == MatchFrom(s, 0, << >>)
    IN IF IsArray(m) THEN Arr(MapFilter(m.val)) ELSE m

(***************************** inputs **************************************)
Alphabet == {"{", "}", " ", "a"}

\* every string over Alphabet of length n
StringsOfLen(n) == [1 .. n -> Alphabet]

Placeholder(name) == Open \o name \o Close

ValidNames == {<< "a" >>, << "b", "_", "1" >>}
ValidPieces == {Placeholder(n) : n \in ValidNames}
\* no padding, two spaces of padding on a side, a space or a non-word
\* character inside the identifier
MalformedPieces ==
    { << "{", "{", "a", "}", "}" >>,
      << "{", "{", " ", " ", "a", " ", "}", "}" >>,
      << "{", "{", " ", "a", " ", " ", "}", "}" >>,
      << "{", "{", " ", "a", " ", "b", " ", "}", "}" >>,
      << "{", "{", " ", "a", "-", "b", " ", "}", "}" >> }
\* a well-formed placeholder inside one more pair of braces
ExtraBracePieces == {<< "{" >> \o Placeholder(n) \o << "}" >> : n \in {<< "a" >>}}
PlainPieces == {<< " " >>, << "a", "!" >>}
PartialPieces == {<< "{", "{" >>, << "{", "{", " ", "a", " ", "}" >>, << "}" >>}

Pieces ==
    ValidPieces \cup MalformedPieces \cup ExtraBracePieces
                \cup PlainPieces \cup PartialPieces

\* every text of n fragments
TextsOfLen(n) == [1 .. n -> Pieces]

\* the string a text stands for
RECURSIVE Chars(_)
Chars(t) == IF t = << >> THEN << >> ELSE Head(t) \o Chars(Tail(t))

(***************************** state ***************************************)
VARIABLES
    pc,         \* pc[c]: where caller c's invocation stands
    text,       \* text[c]: the argument of the invocation, as fragments
    value,      \* value[c]: const value = text
    lastIndex,  \* lastIndex[r]: the lastIndex of regex object r
    A,          \* A[c]: the array String.prototype.match is building
    matches,    \* matches[c]: const matches = value.match(...)
    variables,  \* variables[c]: what the caller received
    field,      \* the text field's value, as fragments
    events,     \* the values carried by the input events so far
    calls,      \* the arguments the listener passed so far
    console     \* what the listener logged so far

vars == << pc, text, value, lastIndex, A, matches, variables,
           field, events, calls, console >>

hostVars == << field, events, calls, console >>

Callers == DOMAIN pc

\* The regex object an invocation uses: the literal of line 4 is evaluated
\* on every call, so each invocation has its own
RegexShared(c) == 1
RegexOf(c) == c

\* the array String.prototype.match collects into: a new one on each call
MatchArrayKept(old) == old
MatchArray(old) == << >>

InitFor(n) ==
    /\ pc = [c \in 1 .. n |-> "idle"]
    /\ value = [c \in 1 .. n |-> << >>]
    /\ lastIndex = [c \in 1 .. n |-> 0]
    /\ A = [c \in 1 .. n |-> << >>]
    /\ matches = [c \in 1 .. n |-> Null]
    /\ variables = [c \in 1 .. n |-> Null]
    /\ field = << >>
    /\ events = << >>
    /\ calls = << >>
    /\ console = << >>

\* lines 3-6: the call of detectVaraibles(t) up to the start of match():
\* the regex literal is evaluated, value is bound, and match() on a global
\* regex sets lastIndex to 0 and starts an empty array
Call(c, t) ==
    /\ text' = [text EXCEPT ![c] = t]
    /\ value' = [value EXCEPT ![c] = Chars(t)]
    /\ lastIndex' = [lastIndex EXCEPT ![RegexOf(c)] = 0]
    /\ A' = [A EXCEPT ![c] = MatchArray(A[c])]
    /\ pc' = [pc EXCEPT ![c] = "match"]
    /\ UNCHANGED << matches, variables >>

\* line 6: one round of the loop of match(): exec from lastIndex.  A match is
\* appended and lastIndex moves to its end; a failure resets lastIndex and
\* ends the loop with the array, or with null when nothing matched
Exec(c) ==
    /\ pc[c] = "match"
    /\ \E p \in {ExecIndex(value[c], lastIndex[RegexOf(c)])} :
           IF p # -1
           THEN \E e \in {MatchEndAt(value[c], p)} :
                   /\ A' = [A EXCEPT ![c] = Append(@, Str(Substring(value[c], p, e)))]
                   /\ lastIndex' = [lastIndex EXCEPT ![RegexOf(c)] = e]
                   /\ UNCHANGED << pc, matches >>
           ELSE /\ lastIndex' = [lastIndex EXCEPT ![RegexOf(c)] = 0]
                /\ matches' = [matches EXCEPT ![c] =
                                  IF A[c] = << >> THEN Null ELSE Arr(A[c])]
                /\ pc' = [pc EXCEPT ![c] = "matched"]
                /\ UNCHANGED A
    /\ UNCHANGED << text, value, variables, hostVars >>

\* lines 7-15: map and filter under the Array.isArray guard, else the value
\* of matches itself; calling map on null throws a TypeError
Return(c) ==
    /\ pc[c] = "matched"
    /\ IF IsArray(matches[c])
       THEN IF matches[c].type = "array"
            THEN /\ variables' = [variables EXCEPT ![c] =
                                     Arr(MapFilter(matches[c].val))]
                 /\ pc' = [pc EXCEPT ![c] = "returned"]
            ELSE /\ pc' = [pc EXCEPT ![c] = "threw"]
                 /\ UNCHANGED variables
       ELSE /\ variables' = [variables EXCEPT ![c] = matches[c]]
            /\ pc' = [pc EXCEPT ![c] = "returned"]
    /\ UNCHANGED << text, value, lastIndex, A, matches, hostVars >>

(************************ the extractor on its own *************************)
\* a caller invokes detectVaraibles on the input it holds
Invoke(c) ==
    /\ pc[c] = "idle"
    /\ Call(c, text[c])
    /\ UNCHANGED hostVars

\* one caller, holding any input
\* the inputs of the extractor: every string over Alphabet of up to MaxLen
\* characters, and every text of up to MaxPieces fragments
Init ==
    /\ InitFor(1)
    /\ \/ \E n \in 0 .. MaxLen : \E r \in StringsOfLen(n) : text = << << r >> >>
       \/ \E n \in 0 .. MaxPieces : \E t \in TextsOfLen(n) : text = << t >>

Next ==
    \/ \E c \in Callers : Invoke(c)
    \/ \E c \in Callers : Exec(c)
    \/ \E c \in Callers : Return(c)

Spec == Init /\ [][Next]_vars

\* JavaScript runs a call to completion: a step that can be taken is taken
FairSpec == Spec /\ WF_vars(Next)

(************************ the text field and its listener ******************)
\* the fragments typed or pasted into the text field
HostPieces ==
    {Placeholder(<< "a" >>), Placeholder(<< "b", "_", "1" >>),
     << " " >>, << "{", "{", "a", "}", "}" >>}

\* e.target.value, line 18: the field's full current text
TargetValueData(f) == IF f = << >> THEN f ELSE << f[Len(f)] >>
TargetValue(f) == f

\* The user changes the field: a fragment is appended, or the last one is
\* deleted, and the browser fires "input".  It does so only between tasks,
\* when no listener is running.
InputEvent ==
    /\ pc[1] = "idle"
    /\ Len(events) < MaxEvents
    /\ \/ \E piece \in HostPieces : field' = Append(field, piece)
       \/ field # << >> /\ field' = SubSeq(field, 1, Len(field) - 1)
    /\ events' = Append(events, field')
    /\ pc' = [pc EXCEPT ![1] = "event"]
    /\ UNCHANGED << text, value, lastIndex, A, matches, variables, calls, console >>

\* lines 17-18: the listener calls detectVaraibles(e.target.value)
Listener ==
    /\ pc[1] = "event"
    /\ Call(1, TargetValue(field))
    /\ calls' = Append(calls, TargetValue(field))
    /\ UNCHANGED << field, events, console >>

\* lines 18-19: the result is bound to variables and logged; the listener ends
Log ==
    /\ pc[1] = "returned"
    /\ console' = Append(console, variables[1])
    /\ pc' = [pc EXCEPT ![1] = "idle"]
    /\ UNCHANGED << text, value, lastIndex, A, matches, variables,
                    field, events, calls >>

InitHost ==
    /\ InitFor(1)
    /\ text = << << >> >>

NextHost == InputEvent \/ Listener \/ Exec(1) \/ Return(1) \/ Log

SpecHost == InitHost /\ [][NextHost]_vars

(************************ independent callers ******************************)
\* the inputs the concurrent callers hold
ConcurrentTexts ==
    { << >>,
      << Placeholder(<< "a" >>) >>,
      << Placeholder(<< "a" >>), Placeholder(<< "b", "_", "1" >>) >>,
      << << "{", "{", "a", "}", "}" >>, Placeholder(<< "b", "_", "1" >>) >>,
      << << "{" >> \o Placeholder(<< "a" >>) \o << "}" >> >> }

InitConcurrent ==
    /\ InitFor(NumCallers)
    /\ text \in [1 .. NumCallers -> ConcurrentTexts]

\* the steps of the callers' invocations interleave in any order
SpecConcurrent == InitConcurrent /\ [][Next]_vars

(***************************** properties **********************************)
\* a placeholder whose identifier has n characters stands in s at 0-based
\* position p: "{{", one space, n word characters, one space, "}}"
Occurs(s, p, n) ==
    /\ n >= 1
    /\ p + n + 6 <= Len(s)
    /\ s[p + 1] = "{" /\ s[p + 2] = "{" /\ s[p + 3] = " "
    /\ \A k \in 1 .. n : s[p + 3 + k] \in WordChars
    /\ s[p + n + 4] = " " /\ s[p + n + 5] = "}" /\ s[p + n + 6] = "}"

OccursAt(s, p) == \E n \in 1 .. Len(s) : Occurs(s, p, n)

HasPlaceholder(s) == \E p \in 0 .. Len(s) : OccursAt(s, p)

\* the identifiers of the non-overlapping occurrences a left-to-right scan
\* of s from position p meets, in order
RECURSIVE ScanNames(_, _)
ScanNames(s, p) ==
    IF p >= Len(s) THEN << >>
    ELSE IF OccursAt(s, p)
         THEN LET n == CHOOSE n \in 1 .. Len(s) : Occurs(s, p, n)
              IN << SubSeq(s, p + 4, p + 3 + n) >> \o ScanNames(s, p + n + 6)
         ELSE ScanNames(s, p + 1)

\* sub is a substring of s
Contains(s, sub) ==
    \E i \in 1 .. Len(s) - Len(sub) + 1 : SubSeq(s, i, i + Len(sub) - 1) = sub

\* the strings of a returned array; none for null
Names(v) ==
    IF v.type = "array" THEN [i \in 1 .. Len(v.val) |-> v.val[i].val] ELSE << >>

\* the fragments whose concatenation makes no placeholder that is not a
\* fragment's own
SafePieces == ValidPieces \cup MalformedPieces \cup PlainPieces
FromPieces(t, S) == \A i \in 1 .. Len(t) : t[i] \in S
Has(t, S) == \E i \in 1 .. Len(t) : t[i] \in S

NameOfPiece(piece) ==
    CHOOSE n \in ValidNames :
        piece = Placeholder(n) \/ piece = << "{" >> \o Placeholder(n) \o << "}" >>

\* the identifiers of the fragments of t that are in S, in order
RECURSIVE PieceNames(_, _)
PieceNames(t, S) ==
    IF t = << >> THEN << >>
    ELSE (IF Head(t) \in S THEN << NameOfPiece(Head(t)) >> ELSE << >>)
             \o PieceNames(Tail(t), S)

PA == Placeholder(<< "a" >>)
PB == Placeholder(<< "b", "_", "1" >>)

\* C1: for an input with no placeholder (the empty string and "{{name}}"
\* among them) the extractor returns an empty sequence, never null.
C1_EmptyNotNull ==
    \A c \in Callers :
        (pc[c] = "returned" /\ ~HasPlaceholder(value[c]))
            => variables[c] = Arr(<< >>)

\* C2: for an input with at least one placeholder the extractor returns
\* exactly the identifiers of the non-overlapping occurrences a left-to-right
\* scan finds, in order of appearance, repeated names kept.
C2_AllInOrder ==
    \A c \in Callers :
        (pc[c] = "returned" /\ HasPlaceholder(value[c]))
            => /\ variables[c].type = "array"
               /\ Names(variables[c]) = ScanNames(value[c], 0)

C2_Witness ==
    \E c \in Callers :
        /\ pc[c] = "returned"
        /\ text[c] = << PA, << " " >>, PA >>
        /\ Names(variables[c]) = << << "a" >>, << "a" >> >>

\* C3 as stated: a placeholder inside extra braces, {{{ x }}}, contributes
\* no variable name to the result.
C3_ExtraBracesNotMatched ==
    \A c \in Callers :
        (pc[c] = "returned" /\ FromPieces(text[c], SafePieces \cup ExtraBracePieces))
            => Names(variables[c]) = PieceNames(text[c], ValidPieces)

\* C3 amended: the placeholder inside {{{ x }}} is matched; the text
\* contributes the name x once, as a placeholder without the extra braces.
C3_ExtraBracesMatched ==
    \A c \in Callers :
        (/\ pc[c] = "returned"
         /\ FromPieces(text[c], SafePieces \cup ExtraBracePieces)
         /\ Has(text[c], ExtraBracePieces))
            => /\ variables[c].type = "array"
               /\ Names(variables[c]) =
                      PieceNames(text[c], ValidPieces \cup ExtraBracePieces)

C3_Witness ==
    \E c \in Callers :
        /\ pc[c] = "returned"
        /\ text[c] = << << "{" >> \o PA \o << "}" >> >>
        /\ Names(variables[c]) = << << "a" >> >>

\* C4: text with no padding, with more than one padding space, or with a
\* space or other non-word character inside the identifier contributes no
\* name and raises no error; with valid placeholders also in the input the
\* result is the names of the valid placeholders only.
C4_MalformedSkipped ==
    \A c \in Callers :
        (FromPieces(text[c], SafePieces) /\ Has(text[c], ValidPieces))
            => /\ pc[c] # "threw"
               /\ pc[c] = "returned" =>
                      /\ variables[c].type = "array"
                      /\ Names(variables[c]) = PieceNames(text[c], ValidPieces)

C4_Witness ==
    \E c \in Callers :
        /\ pc[c] = "returned"
        /\ Len(text[c]) = 3
        /\ FromPieces(text[c], SafePieces)
        /\ Has(text[c], ValidPieces)
        /\ Has(text[c], MalformedPieces)
        /\ Len(variables[c].val) = 1

\* C5: every returned name is non-empty, holds word characters only, and
\* "{{ " + name + " }}" occurs in the input; the match it was sliced from is
\* exactly "{{ " + name + " }}".
C5_SliceExact ==
    \A c \in Callers :
        pc[c] = "returned" =>
            \A i \in 1 .. Len(Names(variables[c])) :
                LET n == Names(variables[c])[i]
                IN /\ n # << >>
                   /\ \A k \in 1 .. Len(n) : n[k] \in WordChars
                   /\ Contains(value[c], << "{", "{", " " >> \o n \o << " ", "}", "}" >>)
                   /\ Len(matches[c].val) = Len(variables[c].val) =>
                          matches[c].val[i].val =
                              << "{", "{", " " >> \o n \o << " ", "}", "}" >>

C5_Witness ==
    \E c \in Callers :
        /\ pc[c] = "returned"
        /\ text[c] = << << " " >>, PB >>
        /\ Names(variables[c]) = << << "b", "_", "1" >> >>

\* C6: the extractor is total: on every string input (empty, partial brace
\* sequences, characters outside the word class) the call completes and
\* returns a result without entering an error state.
C6_Total ==
    /\ [](pc[1] # "threw")
    /\ (pc[1] = "idle") ~> (pc[1] = "returned")

C6_Witness ==
    /\ pc[1] = "returned"
    /\ text[1] = << << "{", "{" >>, << "{", "{", " ", "a", " ", "}" >>, << "a", "!" >> >>
    /\ variables[1] = Null

\* C7: the extractor has no hidden state: after any sequence of earlier
\* calls, a call on input s returns what the first call on s returned.
C7_SameInputSameResult ==
    \A i \in 1 .. Len(console) : \A j \in 1 .. Len(console) :
        Chars(calls[i]) = Chars(calls[j]) => console[i] = console[j]

C7_Witness ==
    /\ Len(console) = 3
    /\ calls[1] = calls[3]
    /\ calls[1] # calls[2]
    /\ console[1] = Arr(<< Str(<< "a" >>) >>)
    /\ console[3] = console[1]

\* C8: the host calls the extractor exactly once per input event, within
\* that event's handling and in event order, with the field's full current
\* text of that event; no event is skipped, merged or deferred.
C8_OneCallPerEvent ==
    /\ Len(calls) <= Len(events) /\ Len(events) <= Len(calls) + 1
    /\ Len(console) <= Len(calls) /\ Len(calls) <= Len(console) + 1
    /\ \A i \in 1 .. Len(calls) : calls[i] = events[i]
    /\ pc[1] # "event" => Len(calls) = Len(events)
    /\ pc[1] = "idle" => Len(console) = Len(events)
    /\ pc[1] \in {"match", "matched", "returned"} =>
           /\ text[1] = field
           /\ events[Len(events)] = field

C8_Witness ==
    /\ pc[1] = "idle"
    /\ Len(events) = 2
    /\ Len(events[2]) = 2
    /\ calls = events
    /\ Len(console) = 2

\* C9: the extractor holds no shared mutable state: when the steps of
\* several callers' invocations interleave in any order, each invocation
\* returns what it returns when run alone.
C9_AsAlone ==
    \A c \in Callers :
        pc[c] = "returned" => variables[c] = detectVaraibles(Chars(text[c]))

C9_Witness ==
    /\ pc[1] = "returned"
    /\ Len(variables[1].val) = 2
    /\ pc[2] = "match"
    /\ Len(A[2]) = 1
    /\ Len(text[2]) = 2

\* C10: map-then-filter never drops a match: when the pattern matched, the
\* returned array has as many elements as there are matches, no element is
\* null or the empty string, and every match is a string.
C10_NothingDropped ==
    \A c \in Callers :
        (pc[c] = "returned" /\ matches[c].type = "array")
            => /\ variables[c].type = "array"
               /\ Len(variables[c].val) = Len(matches[c].val)
               /\ \A i \in 1 .. Len(matches[c].val) : IsString(matches[c].val[i])
               /\ \A i \in 1 .. Len(variables[c].val) :
                      /\ variables[c].val[i].type = "string"
                      /\ variables[c].val[i].val # << >>

C10_Witness ==
    \E c \in Callers :
        /\ pc[c] = "returned"
        /\ matches[c].type = "array"
        /\ Len(matches[c].val) = 3
        /\ Len(variables[c].val) = 3

=============================================================================
